---- MODULE Spec2Model ----
(***************************************************************************)
(* Thermoclock: a two-button thermostat and clock (src/Thermoclock.ino).   *)
(*                                                                         *)
(* The state is the sketch's globals plus the locals that loop() computes  *)
(* in a pass (t, rawTemp, armed, cold, hot, heating), kept as variables so *)
(* that properties can speak about "the hot of that tick", and a record of *)
(* what the pass started from (entryState, entryTarget, pinLevelPrev).     *)
(* One action, Loop, is one whole pass of loop(): sample the buttons, read *)
(* the sensor and the clock, pick the status word and the flashing clock   *)
(* field for the display, run the four button handlers in source order,    *)
(* then the heater decision.                                               *)
(***************************************************************************)
EXTENDS Integers, Sequences, FiniteSets

VARIABLES
    currentState,     \* State currentState
    targetTempF,      \* int targetTempF
    buttonLastState,  \* int buttonLastState[2]
    buttonNewState,   \* int buttonNewState[2]
    switchState,      \* int switchState
    sysTime,          \* the clock source's seconds counter (Time library)
    t,                \* loop(): time_t t = now()
    rawTemp,          \* loop(): int rawTemp
    armed,            \* loop(): int armed
    cold,             \* loop(): int cold
    hot,              \* loop(): int hot
    heating,          \* loop(): int heating
    adjusted,         \* argument of the adjustTime call of the pass, 0 if none
    status,           \* the status word the pass gave to printString7Flash
    flashField,       \* the clock field printTime was told to flash
    entryState,       \* currentState on entry to the pass
    entryTarget,      \* targetTempF on entry to the pass
    pinLevel,         \* electrical level read on each button pin in this pass
    pinLevelPrev,     \* electrical level read on each button pin one pass ago
    elapsed,          \* seconds the clock source has advanced on its own
    adjustCount       \* number of adjustTime calls so far

vars == <<currentState, targetTempF, buttonLastState, buttonNewState,
          switchState, sysTime, t, rawTemp, armed, cold, hot, heating,
          adjusted, status, flashField, entryState, entryTarget, pinLevel, pinLevelPrev, elapsed, adjustCount>>

----------------------------------------------------------------------------
(* Bounds of the exploration. *)

\* seconds the clock source may advance by itself in one behaviour
MaxElapsed == 1
\* adjustTime calls explored in one behaviour
MaxAdjusts == 1
\* largest sensor sample of the calibration sweep (a 10-bit converter)
RawMax == 1023

----------------------------------------------------------------------------
(* Constants of the sketch. *)

STATE_START == "STATE_START"
STATE_ENTER_SET == "STATE_ENTER_SET"
STATE_SET_HOUR == "STATE_SET_HOUR"
STATE_SET_MINUTE == "STATE_SET_MINUTE"
STATE_SET_SECOND == "STATE_SET_SECOND"

State == {STATE_START, STATE_ENTER_SET, STATE_SET_HOUR, STATE_SET_MINUTE,
          STATE_SET_SECOND}

targetTempInit == 65
targetTempMin == 60
targetTempMax == 80
tempToleranceDown == 2
tempToleranceUp == 2
startHour == 8
endHour == 23

LOW == 0
HIGH == 1

\* The two buttons, as indices into buttons[], buttonLastState[] and
\* buttonNewState[].
Buttons == {0, 1}

----------------------------------------------------------------------------
(* Inputs. *)

\* Samples of analogRead(thermIn).  With the calibration below they read
\* 63, 66 and 68 degrees F.
RawSamples == {664, 682, 694}

\* Times of day at which the exploration starts: the device has been left
\* alone since power-up for this long (no button touched, the temperature
\* inside the band, the heater off), and Init is the end of such a pass.
\* 00:00:00 (power-up) and 22:59:59.
StartTimes == {0, 82799}

----------------------------------------------------------------------------
(* Buttons. *)

\* Variant: the pull-up polarity is forgotten, a HIGH pin reads as pressed.
readButtonInverted(level) == IF level = LOW THEN 0 ELSE 1

\* !digitalRead(buttonPin): the pins are pulled up, pressed reads LOW.
readButton(level) == IF level = LOW THEN 1 ELSE 0

\* Variant: the second button's history is copied from the first button.
updateButtonStatesCrossed(new, lv) ==
    [last |-> [b \in Buttons |-> new[0]],
     new  |-> [b \in Buttons |-> readButton(lv[b])]]

\* updateButtonStates(): the pair <<last, new>> after sampling levels lv.
updateButtonStates(new, lv) ==
    [last |-> [b \in Buttons |-> new[b]],
     new  |-> [b \in Buttons |-> readButton(lv[b])]]

singleButtonDown(last, new, buttonNum) ==
    new[buttonNum] # 0 /\ ~(last[buttonNum] # 0)

\* Variant: level-triggered, true on every pass after a pass with the button down.
singleButtonUpLevel(last, new, buttonNum) == last[buttonNum] # 0

singleButtonUp(last, new, buttonNum) ==
    ~(new[buttonNum] # 0) /\ last[buttonNum] # 0

buttonIsDown(new, buttonNum) == new[buttonNum] # 0

----------------------------------------------------------------------------
(* Sensor and schedule. *)

\* round(x) for x = n / d, d > 0: halves go away from zero.
RoundDiv(n, d) ==
    IF n >= 0 THEN (2 * n + d) \div (2 * d)
    ELSE -((2 * (-n) + d) \div (2 * d))

\* Variant: the regression is applied with its sign swapped.
rawToFInverted(raw) == RoundDiv(481900 - 1674 * raw, 10000)

\* round(0.1674 * raw - 45.19 - 3), in ten-thousandths.  No raw in 0..1023
\* lands on a half, and the nearest miss (0.0002) is far above the float
\* error, so the exact quotient rounds as the float does.
rawToF(raw) == RoundDiv(1674 * raw - 481900, 10000)

\* Time library: the fields of a time_t.
hour(tt) == (tt \div 3600) % 24
minute(tt) == (tt \div 60) % 60
second(tt) == tt % 60

shouldBeArmed(tt) == hour(tt) >= startHour /\ hour(tt) < endHour

\* Variant: the lower edge of the band is excluded.
isTooColdStrict(raw, target) == rawToF(raw) < target - tempToleranceDown

isTooCold(raw, target) == rawToF(raw) <= target - tempToleranceDown

\* Variant: the upper tolerance is subtracted instead of added.
isTooHotBelow(raw, target) == rawToF(raw) >= target - tempToleranceUp

isTooHot(raw, target) == rawToF(raw) >= target + tempToleranceUp

----------------------------------------------------------------------------
(* The display.  printString7Flash and printPad2Flash blank what they are  *)
(* given during half of each flash period; the model keeps what they are   *)
(* given.                                                                  *)

\* printTime(): the field whose shouldFlash argument is true.
FlashField(cs) ==
    IF cs = STATE_SET_HOUR THEN "hour"
    ELSE IF cs = STATE_SET_MINUTE THEN "minute"
    ELSE IF cs = STATE_SET_SECOND THEN "second"
    ELSE "none"

\* Variant: the schedule is looked at before the too-hot test.
StatusWordArmedFirst(h, cs, isCold, isArmed, isHot) ==
    IF h # 0 THEN "HEATING"
    ELSE IF cs = STATE_ENTER_SET THEN "SETUP  "
    ELSE IF isCold /\ isArmed THEN "HEAT   "
    ELSE IF isArmed THEN "TEMP OK"
    ELSE IF isHot THEN "TOO HOT"
    ELSE IF isCold THEN "COLD   "
    ELSE "STANDBY"

\* The if-chain that picks the status word; h is the heating local.
StatusWord(h, cs, isCold, isArmed, isHot) ==
    IF h # 0 THEN "HEATING"
    ELSE IF cs = STATE_ENTER_SET THEN "SETUP  "
    ELSE IF isCold /\ isArmed THEN "HEAT   "
    ELSE IF isHot THEN "TOO HOT"
    ELSE IF isArmed THEN "TEMP OK"
    ELSE IF isCold THEN "COLD   "
    ELSE "STANDBY"

----------------------------------------------------------------------------
(* The button handlers of loop().  Each takes and returns the record       *)
(* [cs, target, adj]: currentState, targetTempF and the adjustTime         *)
(* argument issued so far in this pass (0: none).                          *)

\* Variant: a left press never starts the two-button gesture.
OnLeftDownNoGesture(m, new) == m

\* if (singleButtonDown(0)) { ... }
OnLeftDown(m, new) ==
    IF m.cs = STATE_START /\ buttonIsDown(new, 1)
    THEN [m EXCEPT !.cs = STATE_ENTER_SET]
    ELSE m

\* Variant: the STATE_ENTER_SET test on the other button has lost its "!".
OnLeftUpInverted(m, new) ==
    CASE m.cs = STATE_START ->
            IF m.target < targetTempMax
            THEN [m EXCEPT !.target = @ + 1]
            ELSE m
      [] m.cs = STATE_ENTER_SET ->
            IF buttonIsDown(new, 1)
            THEN [m EXCEPT !.cs = STATE_SET_HOUR]
            ELSE m
      [] m.cs = STATE_SET_HOUR -> [m EXCEPT !.cs = STATE_SET_MINUTE]
      [] m.cs = STATE_SET_MINUTE -> [m EXCEPT !.cs = STATE_SET_SECOND]
      [] m.cs = STATE_SET_SECOND -> [m EXCEPT !.cs = STATE_START]

\* Variant: the target is raised without the upper limit.
OnLeftUpNoClamp(m, new) ==
    CASE m.cs = STATE_START -> [m EXCEPT !.target = @ + 1]
      [] m.cs = STATE_ENTER_SET ->
            IF ~buttonIsDown(new, 1)
            THEN [m EXCEPT !.cs = STATE_SET_HOUR]
            ELSE m
      [] m.cs = STATE_SET_HOUR -> [m EXCEPT !.cs = STATE_SET_MINUTE]
      [] m.cs = STATE_SET_MINUTE -> [m EXCEPT !.cs = STATE_SET_SECOND]
      [] m.cs = STATE_SET_SECOND -> [m EXCEPT !.cs = STATE_START]

\* if (singleButtonUp(0)) { ... }
OnLeftUp(m, new) ==
    CASE m.cs = STATE_START ->
            IF m.target < targetTempMax
            THEN [m EXCEPT !.target = @ + 1]
            ELSE m
      [] m.cs = STATE_ENTER_SET ->
            IF ~buttonIsDown(new, 1)
            THEN [m EXCEPT !.cs = STATE_SET_HOUR]
            ELSE m
      [] m.cs = STATE_SET_HOUR -> [m EXCEPT !.cs = STATE_SET_MINUTE]
      [] m.cs = STATE_SET_MINUTE -> [m EXCEPT !.cs = STATE_SET_SECOND]
      [] m.cs = STATE_SET_SECOND -> [m EXCEPT !.cs = STATE_START]

\* Variant: a right press never starts the two-button gesture.
OnRightDownNoGesture(m, new) == m

\* if (singleButtonDown(1)) { ... }
OnRightDown(m, new) ==
    IF m.cs = STATE_START /\ buttonIsDown(new, 0)
    THEN [m EXCEPT !.cs = STATE_ENTER_SET]
    ELSE m

\* Variant: minutes and seconds are always stepped forward, leaving the carry
\* to the clock source.
OnRightUpNoRollover(m, new, tt) ==
    CASE m.cs = STATE_START ->
            IF m.target > targetTempMin
            THEN [m EXCEPT !.target = @ - 1]
            ELSE m
      [] m.cs = STATE_ENTER_SET ->
            IF ~buttonIsDown(new, 0)
            THEN [m EXCEPT !.cs = STATE_SET_HOUR]
            ELSE m
      [] m.cs = STATE_SET_HOUR -> [m EXCEPT !.adj = 60 * 60]
      [] m.cs = STATE_SET_MINUTE -> [m EXCEPT !.adj = 60]
      [] m.cs = STATE_SET_SECOND -> [m EXCEPT !.adj = 1]

\* Variant: a right release in STATE_SET_HOUR also moves on to the minutes.
OnRightUpAdvances(m, new, tt) ==
    CASE m.cs = STATE_START ->
            IF m.target > targetTempMin
            THEN [m EXCEPT !.target = @ - 1]
            ELSE m
      [] m.cs = STATE_ENTER_SET ->
            IF ~buttonIsDown(new, 0)
            THEN [m EXCEPT !.cs = STATE_SET_HOUR]
            ELSE m
      [] m.cs = STATE_SET_HOUR ->
            [m EXCEPT !.adj = 60 * 60, !.cs = STATE_SET_MINUTE]
      [] m.cs = STATE_SET_MINUTE ->
            IF minute(tt) = 59
            THEN [m EXCEPT !.adj = (-59) * 60]
            ELSE [m EXCEPT !.adj = 60]
      [] m.cs = STATE_SET_SECOND ->
            IF second(tt) = 59
            THEN [m EXCEPT !.adj = -59]
            ELSE [m EXCEPT !.adj = 1]

\* if (singleButtonUp(1)) { ... }; tt is the t read earlier in the pass.
OnRightUp(m, new, tt) ==
    CASE m.cs = STATE_START ->
            IF m.target > targetTempMin
            THEN [m EXCEPT !.target = @ - 1]
            ELSE m
      [] m.cs = STATE_ENTER_SET ->
            IF ~buttonIsDown(new, 0)
            THEN [m EXCEPT !.cs = STATE_SET_HOUR]
            ELSE m
      [] m.cs = STATE_SET_HOUR -> [m EXCEPT !.adj = 60 * 60]
      [] m.cs = STATE_SET_MINUTE ->
            IF minute(tt) = 59
            THEN [m EXCEPT !.adj = (-59) * 60]
            ELSE [m EXCEPT !.adj = 60]
      [] m.cs = STATE_SET_SECOND ->
            IF second(tt) = 59
            THEN [m EXCEPT !.adj = -59]
            ELSE [m EXCEPT !.adj = 1]

\* "Handle input": the four handlers, in source order.
HandleInput(m, last, new, tt) ==
    LET m1 == IF singleButtonDown(last, new, 0) THEN OnLeftDown(m, new) ELSE m
        m2 == IF singleButtonUp(last, new, 0) THEN OnLeftUp(m1, new) ELSE m1
        m3 == IF singleButtonDown(last, new, 1) THEN OnRightDown(m2, new) ELSE m2
        m4 == IF singleButtonUp(last, new, 1) THEN OnRightUp(m3, new, tt) ELSE m3
    IN  m4

----------------------------------------------------------------------------
(* The heater. *)

\* Variant: the first test forgets the mode.
HeaterDecisionIgnoringMode(isHot, isArmed, cs, isCold, h, sw) ==
    IF isHot \/ ~isArmed THEN 0
    ELSE IF isArmed /\ isCold THEN 1
    ELSE IF isArmed /\ ~isHot THEN h
    ELSE sw

\* Variant: no hold, the heater is on exactly while it is cold.
HeaterDecisionNoHold(isHot, isArmed, cs, isCold, h, sw) ==
    IF isHot \/ ~isArmed \/ cs # STATE_START THEN 0
    ELSE IF cs = STATE_START /\ isArmed /\ isCold THEN 1
    ELSE 0

\* "Now do the actual heater code": the value switchState has after it.
\* sw is switchState before, h the heating local read earlier in the pass.
HeaterDecision(isHot, isArmed, cs, isCold, h, sw) ==
    IF isHot \/ ~isArmed \/ cs # STATE_START THEN 0
    ELSE IF cs = STATE_START /\ isArmed /\ isCold THEN 1
    ELSE IF cs = STATE_START /\ isArmed /\ ~isHot THEN h
    ELSE sw

----------------------------------------------------------------------------
(* One pass of loop(). *)

Loop(lv, raw, adv) ==
    LET tt  == sysTime + adv                      \* now()
        a   == shouldBeArmed(tt)
        c   == isTooCold(raw, targetTempF)
        h   == isTooHot(raw, targetTempF)
        on  == switchState                        \* getSwitchState()
    IN  /\ elapsed + adv <= MaxElapsed
        /\ \E b \in {updateButtonStates(buttonNewState, lv)} :
           \E m \in {HandleInput([cs |-> currentState, target |-> targetTempF,
                                  adj |-> 0], b.last, b.new, tt)} :
            /\ m.adj # 0 => adjustCount < MaxAdjusts
            /\ buttonLastState' = b.last
            /\ buttonNewState' = b.new
            /\ currentState' = m.cs
            /\ targetTempF' = m.target
            /\ adjusted' = m.adj
            /\ sysTime' = tt + m.adj                  \* adjustTime(adj)
            /\ switchState' = HeaterDecision(h, a, m.cs, c, on, switchState)
            /\ adjustCount' = IF m.adj # 0 THEN adjustCount + 1 ELSE adjustCount
        /\ entryState' = currentState
        /\ entryTarget' = targetTempF
        /\ pinLevelPrev' = pinLevel
        /\ pinLevel' = lv
        /\ rawTemp' = raw
        /\ t' = tt
        /\ armed' = a
        /\ cold' = c
        /\ hot' = h
        /\ heating' = on
        /\ flashField' = FlashField(currentState)         \* printTime(t)
        /\ status' = StatusWord(on, currentState, c, a, h)
        /\ elapsed' = elapsed + adv

Init ==
    /\ currentState = STATE_START
    /\ targetTempF = targetTempInit
    /\ buttonLastState = [b \in Buttons |-> 0]
    /\ buttonNewState = [b \in Buttons |-> 0]
    /\ switchState = 0
    /\ sysTime \in StartTimes
    /\ t = sysTime
    /\ rawTemp = 682
    /\ armed = shouldBeArmed(sysTime)
    /\ cold = isTooCold(rawTemp, targetTempF)
    /\ hot = isTooHot(rawTemp, targetTempF)
    /\ heating = 0
    /\ adjusted = 0
    /\ flashField = FlashField(currentState)
    /\ status = StatusWord(heating, currentState, cold, armed, hot)
    /\ entryState = STATE_START
    /\ entryTarget = targetTempInit
    /\ pinLevel = [b \in Buttons |-> HIGH]
    /\ pinLevelPrev = [b \in Buttons |-> HIGH]
    /\ elapsed = 0
    /\ adjustCount = 0

Next ==
    \E lv \in [Buttons -> {LOW, HIGH}], raw \in RawSamples, adv \in 0..1 :
        Loop(lv, raw, adv)

Spec == Init /\ [][Next]_vars

----------------------------------------------------------------------------
(* The calibration and the two band tests on their own: the sensor is      *)
(* swept over its whole range, one step at a time, against every target    *)
(* the buttons can set; nothing else of the controller moves.              *)

\* The sensor part of a pass: getRawTemp(), isTooCold(), isTooHot().
Sense(raw) ==
    /\ rawTemp' = raw
    /\ cold' = isTooCold(raw, targetTempF)
    /\ hot' = isTooHot(raw, targetTempF)
    /\ UNCHANGED <<currentState, targetTempF, buttonLastState, buttonNewState,
                   switchState, sysTime, t, armed, heating, adjusted, status,
                   flashField, entryState, entryTarget, pinLevel,
                   pinLevelPrev, elapsed, adjustCount>>

CalInit ==
    /\ currentState = STATE_START
    /\ targetTempF \in targetTempMin..targetTempMax
    /\ buttonLastState = [b \in Buttons |-> 0]
    /\ buttonNewState = [b \in Buttons |-> 0]
    /\ switchState = 0
    /\ sysTime = 0
    /\ t = sysTime
    /\ rawTemp = 0
    /\ armed = shouldBeArmed(sysTime)
    /\ cold = isTooCold(rawTemp, targetTempF)
    /\ hot = isTooHot(rawTemp, targetTempF)
    /\ heating = 0
    /\ adjusted = 0
    /\ flashField = FlashField(currentState)
    /\ status = StatusWord(heating, currentState, cold, armed, hot)
    /\ entryState = STATE_START
    /\ entryTarget = targetTempF
    /\ pinLevel = [b \in Buttons |-> HIGH]
    /\ pinLevelPrev = [b \in Buttons |-> HIGH]
    /\ elapsed = 0
    /\ adjustCount = 0

CalNext ==
    \E raw \in {rawTemp - 1, rawTemp + 1} :
        /\ raw \in 0..RawMax
        /\ Sense(raw)

CalSpec == CalInit /\ [][CalNext]_vars

\* loop() is called again without end, so a pass that can change the state
\* is not put off for ever.
FairSpec == Init /\ [][Next]_vars /\ WF_vars(Next)

----------------------------------------------------------------------------
(* What the last pass saw on the button pins.                              *)

PinPressed(b) == pinLevelPrev[b] = HIGH /\ pinLevel[b] = LOW
PinReleased(b) == pinLevelPrev[b] = LOW /\ pinLevel[b] = HIGH
PinDown(b) == pinLevel[b] = LOW
PinHeld(b) == pinLevelPrev[b] = LOW /\ pinLevel[b] = LOW

SetModes == {STATE_SET_HOUR, STATE_SET_MINUTE, STATE_SET_SECOND}

----------------------------------------------------------------------------
(* Properties. *)

\* C1: at the end of every pass, if the heater is on then the mode left by
\* the pass's button handling is STATE_START, the t read in the pass is
\* inside the schedule (startHour <= hour(t) < endHour) and the hot computed
\* in the pass is false.
HeaterSafety ==
    switchState = 1 =>
        /\ currentState = STATE_START
        /\ armed
        /\ startHour <= hour(t) /\ hour(t) < endHour
        /\ ~hot
        /\ rawToF(rawTemp) < entryTarget + tempToleranceUp

\* C1 witness: a pass that has just switched the heater on.
HeaterSafetyWitness ==
    switchState = 1 /\ heating = 0 /\ currentState = STATE_START /\ armed

\* C2: over one pass, a heater that was on stays on when the pass is not
\* hot, armed and ends in STATE_START; the heater is off after any pass that
\* is hot, or not armed, or ends in another mode; and a heater that was off
\* stays off in a pass that is armed, in STATE_START, not hot and not cold.
HysteresisHold ==
    [][ /\ (switchState = 1 /\ ~hot' /\ armed' /\ currentState' = STATE_START)
              => switchState' = 1
        /\ (hot' \/ ~armed' \/ currentState' # STATE_START)
              => switchState' = 0
        /\ (switchState = 0 /\ armed' /\ currentState' = STATE_START
                /\ ~hot' /\ ~cold')
              => switchState' = 0 ]_vars

\* C2 witness: the heater was on and is held on by a pass inside the band.
HysteresisHoldWitness ==
    /\ switchState = 1 /\ heating = 1
    /\ armed /\ ~hot /\ ~cold /\ currentState = STATE_START

\* C3: a pass that ends in STATE_START, is armed and is cold (the reading is
\* at or below the target minus tempToleranceDown, the target being the one
\* the pass started with) leaves the heater on whatever it was before; with
\* target 65, 63 degrees turns it on, 66 leaves it on and 68 turns it off.
CallForHeat ==
    /\ cold <=> (rawToF(rawTemp) <= entryTarget - tempToleranceDown)
    /\ (currentState = STATE_START /\ armed /\ cold) => switchState = 1
    /\ (currentState = STATE_START /\ armed /\ entryTarget = 65) =>
          /\ rawToF(rawTemp) = 63 => switchState = 1
          /\ (rawToF(rawTemp) = 66 /\ heating = 1) => switchState = 1
          /\ rawToF(rawTemp) = 68 => switchState = 0

\* C3 witness: exactly on the lower edge (63 against a target of 65) the
\* heater, which was off, has been switched on.
CallForHeatWitness ==
    /\ entryTarget = 65 /\ rawToF(rawTemp) = 63 /\ cold /\ armed
    /\ currentState = STATE_START /\ heating = 0 /\ switchState = 1

\* C4: targetTempF is always within [targetTempMin, targetTempMax]; a pass
\* that starts in STATE_START with a left release adds 1 unless the target
\* is targetTempMax, where it stays; with a right release it subtracts 1
\* unless the target is targetTempMin, where it stays.
TargetClamp ==
    /\ targetTempF \in targetTempMin..targetTempMax
    /\ targetTempMin = 60 /\ targetTempMax = 80
    /\ (entryState = STATE_START /\ PinReleased(0)) =>
          targetTempF = IF entryTarget = targetTempMax THEN targetTempMax
                        ELSE entryTarget + 1
    /\ (entryState = STATE_START /\ PinReleased(1)) =>
          targetTempF = IF entryTarget = targetTempMin THEN targetTempMin
                        ELSE entryTarget - 1

\* C4 witness: a left release in STATE_START at the upper limit.
TargetClampWitness ==
    /\ entryState = STATE_START /\ PinReleased(0)
    /\ entryTarget = targetTempMax /\ targetTempF = targetTempMax

\* C5: a pass that starts in STATE_START and sees one button pressed while
\* the other is down (both pressed together included) ends in
\* STATE_ENTER_SET; a pass that starts in STATE_ENTER_SET ends there while a
\* button is still down and in STATE_SET_HOUR once neither is.
SetupGesture ==
    /\ (/\ entryState = STATE_START
        /\ \/ PinPressed(0) /\ PinDown(1)
           \/ PinPressed(1) /\ PinDown(0))
          => currentState = STATE_ENTER_SET
    /\ entryState = STATE_ENTER_SET =>
          currentState = IF PinDown(0) \/ PinDown(1) THEN STATE_ENTER_SET
                         ELSE STATE_SET_HOUR

\* C5 witness: the gesture ends with both buttons released in one pass.
SetupGestureWitness ==
    /\ entryState = STATE_ENTER_SET /\ currentState = STATE_SET_HOUR
    /\ PinReleased(0) /\ PinReleased(1)

\* C6: from STATE_SET_HOUR, STATE_SET_MINUTE and STATE_SET_SECOND the mode
\* moves only to the next of SET_MINUTE, SET_SECOND, START, and exactly in
\* the passes with a left release; a pass without a left edge changes the
\* mode only by the gesture (START to ENTER_SET on a right press, ENTER_SET
\* to SET_HOUR on a right release); a pass that starts in a SET mode without
\* a right edge changes neither the target nor the clock.
ModeCycle ==
    /\ entryState = STATE_SET_HOUR =>
          currentState = IF PinReleased(0) THEN STATE_SET_MINUTE
                         ELSE STATE_SET_HOUR
    /\ entryState = STATE_SET_MINUTE =>
          currentState = IF PinReleased(0) THEN STATE_SET_SECOND
                         ELSE STATE_SET_MINUTE
    /\ entryState = STATE_SET_SECOND =>
          currentState = IF PinReleased(0) THEN STATE_START
                         ELSE STATE_SET_SECOND
    /\ (~PinPressed(0) /\ ~PinReleased(0) /\ currentState # entryState) =>
          \/ /\ entryState = STATE_START /\ currentState = STATE_ENTER_SET
             /\ PinPressed(1)
          \/ /\ entryState = STATE_ENTER_SET /\ currentState = STATE_SET_HOUR
             /\ PinReleased(1)
    /\ (entryState \in SetModes /\ ~PinPressed(1) /\ ~PinReleased(1)) =>
          targetTempF = entryTarget /\ adjusted = 0

\* C6 witness: a right release in STATE_SET_HOUR has adjusted the clock and
\* left the mode alone.
ModeCycleWitness ==
    /\ entryState = STATE_SET_HOUR /\ currentState = STATE_SET_HOUR
    /\ PinReleased(1) /\ adjusted = 60 * 60

\* C7: every pass in which targetTempF changes started in STATE_START.
TargetOnlyInNormal ==
    targetTempF # entryTarget => entryState = STATE_START

\* C8: every pass that calls adjustTime started in STATE_SET_HOUR,
\* STATE_SET_MINUTE or STATE_SET_SECOND.
ClockOnlyInSetModes ==
    adjusted # 0 => entryState \in SetModes

\* C9: the target changes and adjustTime is called only in passes with a
\* release edge on some pin; a button held down through a pass raises no
\* edge event, and if the other button has no edge either the pass changes
\* neither the mode, the target nor the clock.
ReleaseEdgeOnly ==
    /\ (targetTempF # entryTarget \/ adjusted # 0) =>
          PinReleased(0) \/ PinReleased(1)
    /\ \A b \in Buttons :
          PinHeld(b) =>
             /\ ~singleButtonDown(buttonLastState, buttonNewState, b)
             /\ ~singleButtonUp(buttonLastState, buttonNewState, b)
             /\ (pinLevel[1 - b] = pinLevelPrev[1 - b]) =>
                   /\ currentState = entryState
                   /\ targetTempF = entryTarget
                   /\ adjusted = 0

\* C9 witness: the right button is held through a pass in STATE_SET_HOUR,
\* where its release would add an hour, and nothing changes.
ReleaseEdgeOnlyWitness ==
    /\ PinHeld(1) /\ pinLevel[0] = HIGH /\ pinLevelPrev[0] = HIGH
    /\ entryState = STATE_SET_HOUR /\ currentState = STATE_SET_HOUR
    /\ adjusted = 0

\* C10: for each button, singleButtonDown and singleButtonUp are never both
\* true; singleButtonDown is true exactly in the passes whose sample went
\* from up to down, singleButtonUp exactly in those whose sample went from
\* down to up, and buttonIsDown exactly while the sample is down.
EdgeDetection ==
    \A b \in Buttons :
        /\ ~(/\ singleButtonDown(buttonLastState, buttonNewState, b)
             /\ singleButtonUp(buttonLastState, buttonNewState, b))
        /\ singleButtonDown(buttonLastState, buttonNewState, b) <=> PinPressed(b)
        /\ singleButtonUp(buttonLastState, buttonNewState, b) <=> PinReleased(b)
        /\ buttonIsDown(buttonNewState, b) <=> PinDown(b)

\* C10 witness: the right button's sample went from down to up while the
\* left button's went from up to down.
EdgeDetectionWitness ==
    /\ PinReleased(1) /\ singleButtonUp(buttonLastState, buttonNewState, 1)
    /\ PinPressed(0) /\ singleButtonDown(buttonLastState, buttonNewState, 0)

\* C11: a right release handled in STATE_SET_SECOND leaves the clock with
\* the second one further, 59 going to 0, and the minute and hour of the t
\* read in the pass; a right release handled in STATE_SET_MINUTE leaves it
\* with the minute one further, 59 going to 0, and the hour and second of t.
ClockSetRollover ==
    /\ (currentState = STATE_SET_SECOND /\ PinReleased(1)) =>
          /\ adjusted = IF second(t) = 59 THEN -59 ELSE 1
          /\ second(sysTime) = IF second(t) = 59 THEN 0 ELSE second(t) + 1
          /\ minute(sysTime) = minute(t)
          /\ hour(sysTime) = hour(t)
    /\ (currentState = STATE_SET_MINUTE /\ PinReleased(1)) =>
          /\ adjusted = IF minute(t) = 59 THEN -3540 ELSE 60
          /\ minute(sysTime) = IF minute(t) = 59 THEN 0 ELSE minute(t) + 1
          /\ hour(sysTime) = hour(t)
          /\ second(sysTime) = second(t)

\* C11 witness: at 22:59:59 a right release in STATE_SET_SECOND has taken
\* the clock to 22:59:00.
ClockSetRolloverWitness ==
    /\ currentState = STATE_SET_SECOND /\ PinReleased(1)
    /\ second(t) = 59 /\ minute(t) = 59 /\ hour(t) = 22
    /\ second(sysTime) = 0 /\ minute(sysTime) = 59 /\ hour(sysTime) = 22

\* Both buttons were up one pass ago and are up now.
QuietPass == \A b \in Buttons : pinLevelPrev[b] = HIGH /\ pinLevel[b] = HIGH

\* C12 as stated: the mode is STATE_START at start-up, and in every
\* execution in which both buttons end up released for ever the mode ends
\* up STATE_START for ever.
RestsOnlyInNormal ==
    /\ currentState = STATE_START
    /\ (<>[](pinLevel[0] = HIGH /\ pinLevel[1] = HIGH))
          => <>[](currentState = STATE_START)

\* C12 as amended: the mode is STATE_START at start-up, and a pass in which
\* both buttons were and are released leaves the mode as it was and never in
\* STATE_ENTER_SET; so STATE_START rests, and so do STATE_SET_HOUR,
\* STATE_SET_MINUTE and STATE_SET_SECOND.
ModeRestsWithoutButtons ==
    /\ currentState = STATE_START
    /\ [](QuietPass =>
            /\ currentState = entryState
            /\ currentState # STATE_ENTER_SET)

\* C12 witness: a pass with both buttons released that began and ended in
\* STATE_SET_HOUR.
ModeRestsWithoutButtonsWitness ==
    /\ QuietPass
    /\ entryState = STATE_SET_HOUR /\ currentState = STATE_SET_HOUR

\* C13: the heater command of a pass is the decision taken from cold and
\* hot evaluated against the target that the pass's button handling left.
ThermostatUsesNewTarget ==
    switchState = HeaterDecision(isTooHot(rawTemp, targetTempF), armed,
                                 currentState,
                                 isTooCold(rawTemp, targetTempF),
                                 heating, heating)

\* C14 as stated: the status word is HEATING if the heater is on; else
\* SETUP in any of STATE_ENTER_SET, STATE_SET_HOUR, STATE_SET_MINUTE and
\* STATE_SET_SECOND; else HEAT if cold and armed; else TOO HOT if hot; else
\* TEMP OK if armed; else COLD if cold; else STANDBY.
StatusPriorityAllSetModes ==
    status = IF heating # 0 THEN "HEATING"
             ELSE IF entryState \in {STATE_ENTER_SET} \cup SetModes THEN "SETUP  "
             ELSE IF cold /\ armed THEN "HEAT   "
             ELSE IF hot THEN "TOO HOT"
             ELSE IF armed THEN "TEMP OK"
             ELSE IF cold THEN "COLD   "
             ELSE "STANDBY"

\* C14 as amended: SETUP is shown in STATE_ENTER_SET only; in the three
\* clock-setting modes the word follows the remaining rules and is never
\* SETUP.  Heater and mode are those the pass displays from.
StatusPriority ==
    /\ status = IF heating # 0 THEN "HEATING"
                ELSE IF entryState = STATE_ENTER_SET THEN "SETUP  "
                ELSE IF cold /\ armed THEN "HEAT   "
                ELSE IF hot THEN "TOO HOT"
                ELSE IF armed THEN "TEMP OK"
                ELSE IF cold THEN "COLD   "
                ELSE "STANDBY"
    /\ entryState \in SetModes =>
          status \in {"HEAT   ", "TOO HOT", "TEMP OK", "COLD   ", "STANDBY"}

\* C14 witness: TOO HOT is displayed in a clock-setting mode during the
\* schedule.
StatusPriorityWitness ==
    entryState \in SetModes /\ status = "TOO HOT" /\ armed /\ hot

\* C15: the display of a pass shows the heater and the mode that the pass
\* ends with: the word is HEATING exactly when the pass ends with the heater
\* on, and the flashing clock field is that of the mode the pass ends in.
RenderAfterDecision ==
    /\ (status = "HEATING") <=> (switchState = 1)
    /\ flashField = FlashField(currentState)

\* C16: a pass does at most one of: change the mode, change targetTempF,
\* call adjustTime.
AtMostOneEffect ==
    /\ ~(currentState # entryState /\ targetTempF # entryTarget)
    /\ ~(currentState # entryState /\ adjusted # 0)
    /\ ~(targetTempF # entryTarget /\ adjusted # 0)

\* C17: at the end of every pass, in STATE_ENTER_SET at least one button is
\* sampled down.
EnterSetTransient ==
    currentState = STATE_ENTER_SET =>
        buttonNewState[0] = 1 \/ buttonNewState[1] = 1

\* C17 witness: still in STATE_ENTER_SET after the right button of the
\* gesture has been released, the left one being held.
EnterSetTransientWitness ==
    /\ entryState = STATE_ENTER_SET /\ currentState = STATE_ENTER_SET
    /\ PinReleased(1) /\ PinHeld(0)
    /\ buttonNewState[0] = 1 /\ buttonNewState[1] = 0

\* C18: at the end of every pass, if both buttons are sampled down the mode
\* is not STATE_START.
GestureNeverMissed ==
    (buttonNewState[0] = 1 /\ buttonNewState[1] = 1) =>
        currentState # STATE_START

\* C18 witness: the left button is pressed in STATE_START while the right
\* one has been held since before, and the pass ends in STATE_ENTER_SET.
GestureNeverMissedWitness ==
    /\ entryState = STATE_START /\ currentState = STATE_ENTER_SET
    /\ PinHeld(1) /\ PinPressed(0)
    /\ buttonNewState[0] = 1 /\ buttonNewState[1] = 1

\* C19: for every sensor sample in 0..RawMax and every target in
\* [targetTempMin, targetTempMax], isTooCold and isTooHot are never both
\* true (the two tolerances do not both vanish).
ColdHotExclusive ==
    /\ tempToleranceDown + tempToleranceUp > 0
    /\ ~(cold /\ hot)

\* C19 witness: the lowest target and a reading exactly on the upper edge of
\* its band: hot, and not cold.
ColdHotExclusiveWitness ==
    /\ targetTempF = targetTempMin
    /\ rawToF(rawTemp) = targetTempF + tempToleranceUp
    /\ hot /\ ~cold

\* C20: rawToF does not decrease when the sample goes up by one, so over the
\* sweep a sample that is too cold stays too cold below it and a sample that
\* is too hot stays too hot above it.
CalibrationMonotonic ==
    [][ rawTemp' = rawTemp + 1 =>
           /\ rawToF(rawTemp') >= rawToF(rawTemp)
           /\ cold' => cold
           /\ hot => hot' ]_vars

\* C20 witness: the first sample above the too-cold set: the reading has
\* just stepped up past the lower edge of the band.
CalibrationMonotonicWitness ==
    /\ rawTemp > 0 /\ ~cold
    /\ rawToF(rawTemp) > rawToF(rawTemp - 1)
    /\ rawToF(rawTemp - 1) <= targetTempF - tempToleranceDown

====
